---- MODULE Spec2Model ----
(***************************************************************************)
(* A model of the AI Article Summarizer browser extension.                 *)
(*                                                                         *)
(*   popup.js / storage.js : the persisted savedSummaries list and the     *)
(*                           read-modify-write operations on it            *)
(*                           (specification SpecStore)                     *)
(*   background.js         : one summarize request from any entry point,   *)
(*                           step by step through its awaits               *)
(*                           (specification Spec)                          *)
(*                                                                         *)
(* JavaScript values that can be of several types are tagged tuples:       *)
(* <<"undef">>, <<"null">>, <<"num", n>>, <<"arr", seq>>, <<"obj", record>>  *)
(* and, for a string, <<"str", code points>> or <<"msg", "literal">>: text   *)
(* the code processes character by character is a sequence of code points,  *)
(* messages it only passes on are TLA+ strings.                             *)
(***************************************************************************)
EXTENDS Integers, Sequences, FiniteSets, TLC

(***************************************************************************)
(* Bounds of the model                                                     *)
(***************************************************************************)
\* storage operations (save or delete) started in one behaviour
MaxOps == 2
\* ids generateUUID can draw besides the one the oldest initial entry has
NumFreshIds == 1
\* summarize requests the popup sends in one behaviour
MaxRequests == 3

(***************************************************************************)
(* Program constants                                                       *)
(***************************************************************************)
\* popup.js:288 and storage.js:76, "Limit to 100 summaries"
MAX_SAVED == 100

VARIABLES
    \* ---- chrome.storage.local / popup.js state
    savedSummaries,        \* chrome.storage.local key savedSummaries (a JS value)
    currentSummary,        \* popup.js:44
    currentDetailSummary,  \* popup.js:45
    savedList,             \* the entries the rendered <li> click handlers hold
    view,                  \* showView: "main", "settings" or "detail"
    calls,                 \* storage read-modify-write operations in flight
    loadsPending,          \* loadSavedSummaries() calls whose get has not called back
    clock,                 \* Date.now()
    opsStarted,            \* operations started so far (bounded by MaxOps)
    \* ---- popup.js: the main view and its summarize requests
    visible,               \* the sections of the main view that are not hidden
    awaiting,              \* chrome.runtime.sendMessage calls that have not settled
    triggered,             \* requests sent so far (bounded by MaxRequests)
    \* ---- background.js: chrome.storage.sync and the one request in progress
    syncStorage,           \* chrome.storage.sync: apiKey, apiProvider
    req,                   \* the request: where it stands and its local variables
    net,                   \* its HTTP requests, its abort timer, the 30 seconds
    out,                   \* what it returned, replied and displayed
    \* ---- content.js in the tab
    document,              \* the page the content script runs in
    extraction,            \* what its listener last passed to sendResponse
    \* ---- history of the storage operations (not program state)
    initLen,               \* length of the persisted list at the start
    saveLog,               \* entries of the completed saves, newest first
    deletes,               \* number of completed deletes
    deletedIds,            \* the ids the completed deletes were for
    lastOp,                \* the last completed save or delete
    lastSettled            \* the last sendMessage to settle since the last trigger

storeVars == <<savedSummaries, currentSummary, currentDetailSummary, savedList,
               view, calls, loadsPending, clock, opsStarted>>
histVars == <<initLen, saveLog, deletes, deletedIds, lastOp>>
bgVars == <<syncStorage, req, net, out>>
pageVars == <<document, extraction>>
popupVars == <<visible, awaiting, triggered, lastSettled>>
vars == <<storeVars, histVars, bgVars, pageVars, popupVars>>

(***************************************************************************)
(* JavaScript values                                                       *)
(***************************************************************************)
Undefined == <<"undef">>
Null == <<"null">>
Arr(s) == <<"arr", s>>
Obj(r) == <<"obj", r>>

\* `v || []` for a value that is undefined or an array
OrEmptyArray(v) == IF v[1] = "undef" THEN <<>> ELSE v[2]

\* Array.prototype.slice(0, n)
Slice0(s, n) == SubSeq(s, 1, IF Len(s) < n THEN Len(s) ELSE n)

\* Array.prototype.unshift(e)
Unshift(s, e) == <<e>> \o s

\* a filter with the test inverted: summaries.filter(s => s.id === id)
FilterOnlyId(s, id) == SelectSeq(s, LAMBDA e : e.id = id)

\* summaries.filter(s => s.id !== id)
FilterOutId(s, id) == SelectSeq(s, LAMBDA e : e.id # id)

Str(s) == <<"str", s>>
Msg(m) == <<"msg", m>>
Num(n) == <<"num", n>>

IsNullish(v) == v[1] = "undef" \/ v[1] = "null"

IsString(v) == v[1] = "str" \/ v[1] = "msg"

\* ToBoolean of a tagged value
Truthy(v) ==
    CASE v[1] = "undef" -> FALSE
      [] v[1] = "null" -> FALSE
      [] v[1] = "str" -> v[2] # <<>>
      [] v[1] = "msg" -> v[2] # ""
      [] v[1] = "num" -> v[2] # 0
      [] OTHER -> TRUE

\* v.k for a value that is not null or undefined: a property the value does not
\* have reads as undefined
GetProp(v, k) ==
    IF v[1] = "obj" /\ k \in DOMAIN v[2] THEN v[2][k] ELSE Undefined

\* v[0]
First(v) ==
    IF v[1] = "arr" /\ Len(v[2]) > 0 THEN v[2][1] ELSE Undefined

\* the outcome of evaluating code that may throw
Returns(v) == [returns |-> TRUE, value |-> v]
Throws(name, message) == [returns |-> FALSE, name |-> name, message |-> message]

(***************************************************************************)
(* Text: sequences of code points                                          *)
(***************************************************************************)
\* the white space and line terminators String.prototype.trim removes
WhiteSpace == {9, 10, 11, 12, 13, 32, 160, 5760, 8232, 8233, 8239, 8287, 12288, 65279}
                 \cup (8192 .. 8202)

RECURSIVE TrimStart(_)
TrimStart(s) ==
    IF s # <<>> /\ Head(s) \in WhiteSpace THEN TrimStart(Tail(s)) ELSE s

RECURSIVE TrimEnd(_)
TrimEnd(s) ==
    IF s # <<>> /\ s[Len(s)] \in WhiteSpace THEN TrimEnd(SubSeq(s, 1, Len(s) - 1)) ELSE s

\* String.prototype.trim
Trim(s) == TrimEnd(TrimStart(s))

\* a substring that cuts nothing
SubstringWhole(s, n) == s

\* String.prototype.substring(0, n)
Substring0(s, n) == SubSeq(s, 1, IF Len(s) < n THEN Len(s) ELSE n)

\* title.replace(/[^\x00-\x7F]/g, '')
StripNonAscii(s) == SelectSeq(s, LAMBDA c : c <= 127)

(***************************************************************************)
(* background.js: the messages of the Summarizer                           *)
(***************************************************************************)
MsgNotConfigured == "API key not configured. Please add your API key in settings."
MsgNoActiveTab == "No active tab found."
MsgNoSelectionPopup == "No text selected. Please select some text on the page first."
MsgNoSelectionCommand == "No text selected. Please select some text first."
MsgExtractFallback == "Failed to extract content from page."
MsgCouldNotGenerate == "Could not generate summary. Please try again."
MsgTimedOut == "Request timed out. Please try again."
MsgInvalidKey == "Invalid API key. Please check your settings."
MsgRateLimited == "Rate limited. Please try again in a moment."
MsgUnavailable == "OpenAI service is temporarily unavailable. Please try again."
MsgGeneric == "An error occurred. Please try again."

MsgNetworkError(m) ==
    "Network error: " \o m \o ". Please reload the extension and try again."
MsgExtractFailed(m) == "Failed to extract content: " \o m
MsgSelectionFailed(m) == "Failed to get selection: " \o m

\* the literal 'Selected Text'
SelectedText == <<83, 101, 108, 101, 99, 116, 101, 100, 32, 84, 101, 120, 116>>

\* the failure result every error path of generateSummary builds
Failure(message) == [summary |-> <<>>, success |-> FALSE, error |-> message]

\* a handleApiError whose switch knows 401 and 429 only
handleApiErrorNoServerCase(status, errorData) ==
    CASE status = 401 -> Returns(Failure(Msg(MsgInvalidKey)))
      [] status = 429 -> Returns(Failure(Msg(MsgRateLimited)))
      [] OTHER ->
           IF IsNullish(errorData)
           THEN Throws("TypeError", "Cannot read properties of null (reading 'error')")
           ELSE LET e == GetProp(errorData, "error")
                    m == IF IsNullish(e) THEN Undefined ELSE GetProp(e, "message")
                IN  Returns(Failure(IF Truthy(m) THEN m ELSE Msg(MsgGeneric)))

\* background.js handleApiError
handleApiError(status, errorData) ==
    CASE status = 401 -> Returns(Failure(Msg(MsgInvalidKey)))
      [] status = 429 -> Returns(Failure(Msg(MsgRateLimited)))
      [] status \in {500, 502, 503} -> Returns(Failure(Msg(MsgUnavailable)))
      [] OTHER ->
           IF IsNullish(errorData)
           THEN Throws("TypeError", "Cannot read properties of null (reading 'error')")
           ELSE LET e == GetProp(errorData, "error")
                    m == IF IsNullish(e) THEN Undefined ELSE GetProp(e, "message")
                IN  Returns(Failure(IF Truthy(m) THEN m ELSE Msg(MsgGeneric)))

\* generateSummary, lines 129-152: from the parsed body of a 2xx response to
\* the result, or to the exception a property access or trim() raises
SummaryFromData(data) ==
    IF IsNullish(data)
    THEN Throws("TypeError", "Cannot read properties of null (reading 'choices')")
    ELSE
    LET choices == GetProp(data, "choices")
        choice == IF Truthy(choices) THEN First(choices) ELSE Undefined
        message == IF Truthy(choice) THEN GetProp(choice, "message") ELSE Undefined
    IN  IF ~Truthy(choices) \/ ~Truthy(choice) \/ ~Truthy(message)
        THEN Returns(Failure(Msg(MsgCouldNotGenerate)))
        ELSE LET content == GetProp(message, "content")
             IN  IF IsNullish(content)
                 THEN Throws("TypeError",
                        "Cannot read properties of undefined (reading 'trim')")
                 ELSE IF content[1] # "str"
                 THEN Throws("TypeError",
                        "data.choices[0].message.content.trim is not a function")
                 ELSE LET summary == Trim(content[2])
                      IN  IF summary = <<>>
                          THEN Returns(Failure(Msg(MsgCouldNotGenerate)))
                          ELSE Returns([summary |-> summary, success |-> TRUE])

\* generateSummary, lines 153-167: the catch block
CatchResult(name, message) ==
    IF name = "AbortError"
    THEN Failure(Msg(MsgTimedOut))
    ELSE Failure(Msg(MsgNetworkError(message)))

\* what the try block of generateSummary returns once `outcome` is known
TryResult(outcome) ==
    IF outcome.returns THEN outcome.value ELSE CatchResult(outcome.name, outcome.message)

(***************************************************************************)
(* content.js: the Extractor                                               *)
(***************************************************************************)
\* content.js:53
MAX_CONTENT_LENGTH == 10000

\* content.js:134, text.length < 50
MIN_CONTENT_LENGTH == 50

MsgNoContent == "No content found to summarize"
MsgExtractionFailed(m) == "Extraction failed: " \o m

\* text.replace(/\s+/g, ' '): every run of white space becomes one space
CollapseWhiteSpace(s) ==
    LET first == SelectSeq([i \in 1..Len(s) |-> i],
                           LAMBDA i : \/ s[i] \notin WhiteSpace
                                      \/ i = 1
                                      \/ s[i - 1] \notin WhiteSpace)
    IN  [k \in 1..Len(first) |->
            IF s[first[k]] \in WhiteSpace THEN 32 ELSE s[first[k]]]

\* the scan of replace(/\n\s*\n/g, '\n') over a text that has a line feed: a line
\* feed, the longest white space after it that ends in a line feed
RECURSIVE ScanBlankLines(_)
ScanBlankLines(s) ==
    IF s = <<>> THEN <<>>
    ELSE LET ends == { j \in 2..Len(s) :
                         s[j] = 10 /\ \A k \in 2..j : s[k] \in WhiteSpace }
         IN  IF s[1] = 10 /\ ends # {}
             THEN LET last == CHOOSE j \in ends : \A e \in ends : e <= j
                  IN  <<10>> \o ScanBlankLines(SubSeq(s, last + 1, Len(s)))
             ELSE <<s[1]>> \o ScanBlankLines(Tail(s))

\* text.replace(/\n\s*\n/g, '\n'): without a line feed nothing matches
ReplaceBlankLines(s) ==
    IF \A i \in DOMAIN s : s[i] # 10 THEN s ELSE ScanBlankLines(s)

\* extractArticleContent, lines 128-131: "Clean up whitespace"
CleanText(text) == Trim(ReplaceBlankLines(CollapseWhiteSpace(text)))

\* a limit that cuts one character early: substring(0, MAX_CONTENT_LENGTH - 1)
LimitToMaxLengthOneShort(text) ==
    IF Len(text) > MAX_CONTENT_LENGTH
    THEN Substring0(text, MAX_CONTENT_LENGTH - 1) ELSE text

\* extractArticleContent, lines 145-147: "Limit to max length"
LimitToMaxLength(text) ==
    IF Len(text) > MAX_CONTENT_LENGTH
    THEN Substring0(text, MAX_CONTENT_LENGTH) ELSE text

\* a content check that also refuses a text of exactly 50 characters
HasNoContentInclusive(text) == text = <<>> \/ Len(text) <= MIN_CONTENT_LENGTH

\* !text || text.length < 50
HasNoContent(text) == text = <<>> \/ Len(text) < MIN_CONTENT_LENGTH

\* content.js extractTitle: og:title, else the h1 of the article, else
\* document.title
extractTitle(doc) ==
    IF Truthy(doc.ogTitle) THEN Trim(doc.ogTitle[2])
    ELSE IF Truthy(doc.articleH1) THEN Trim(doc.articleH1[2])
    ELSE Trim(doc.title)

\* a catch block that returns the failure without title, text and url
ExtractionCaughtBare(doc, message) ==
    Obj([success |-> FALSE, error |-> Msg(MsgExtractionFailed(message))])

\* content.js extractArticleContent, the catch block: document.title || '',
\* no text, the location and `Extraction failed: ${err.message}`
ExtractionCaught(doc, message) ==
    Obj([title |-> doc.title, text |-> <<>>, url |-> doc.href, success |-> FALSE,
         error |-> Msg(MsgExtractionFailed(message))])

\* content.js extractArticleContent.  doc.body is the innerText of the clone of
\* the container once the excluded elements are removed, or null when the
\* document has neither an article container nor a body: cloneNode then throws.
extractArticleContent(doc) ==
    IF doc.body[1] = "null"
    THEN ExtractionCaught(doc, "Cannot read properties of null (reading 'cloneNode')")
    ELSE LET title == extractTitle(doc)
             text == CleanText(doc.body[2])
         IN  IF HasNoContent(text)
             THEN Obj([title |-> title, text |-> <<>>, url |-> doc.href,
                       success |-> FALSE, error |-> Msg(MsgNoContent)])
             ELSE Obj([title |-> title, text |-> LimitToMaxLength(text),
                       url |-> doc.href, success |-> TRUE])

\* ---- the pages of the model
\* n characters that are not white space; every 26th is the non-ASCII e-acute
Letters(n) == [i \in 1..n |-> IF i % 26 = 0 THEN 233 ELSE 97 + (i % 26)]

\* a text that cleans to n characters: white space before and after it, and a
\* run of white space after its first character
TextOf(lead, n, gap, trail) ==
    lead \o (IF n < 3 THEN Letters(n) ELSE Letters(1) \o gap \o Letters(n - 2))
         \o trail

TextLengths ==
    {0, 1, MIN_CONTENT_LENGTH - 1, MIN_CONTENT_LENGTH, MIN_CONTENT_LENGTH + 1,
     MAX_CONTENT_LENGTH - 1, MAX_CONTENT_LENGTH, MAX_CONTENT_LENGTH + 1,
     MAX_CONTENT_LENGTH + MIN_CONTENT_LENGTH}

Bodies ==
    {Null}
    \cup { Str(TextOf(lead, n, gap, trail)) :
             lead \in {<<>>, <<10, 32>>}, n \in TextLengths,
             gap \in {<<32>>, <<32, 10, 10, 9>>}, trail \in {<<>>, <<32, 10>>} }

\* og:title, article h1 and document.title of a page
DocumentTitles ==
    { [ogTitle |-> Str(<<32, 67, 97, 102, 233>>), articleH1 |-> Str(<<72>>),
       title |-> <<68>>],
      [ogTitle |-> Str(<<>>), articleH1 |-> Str(<<72, 49, 32>>), title |-> <<68>>],
      [ogTitle |-> Undefined, articleH1 |-> Undefined, title |-> <<32, 68, 111, 99>>] }

Documents ==
    { [ogTitle |-> t.ogTitle, articleH1 |-> t.articleH1, title |-> t.title,
       href |-> "https://a.example/news", body |-> b] :
         t \in DocumentTitles, b \in Bodies }

\* the pages of the tabs a summary is asked for: a short article with a
\* non-ASCII title, one longer than the limit, one with next to no text and one
\* without a body
SampleDocuments ==
    { [ogTitle |-> Str(<<32, 67, 97, 102, 233>>), articleH1 |-> Undefined,
       title |-> <<68>>, href |-> "https://a.example/news",
       body |-> Str(TextOf(<<10, 32>>, MIN_CONTENT_LENGTH + 1, <<32>>, <<>>))],
      [ogTitle |-> Undefined, articleH1 |-> Undefined,
       title |-> <<32, 68, 111, 99>>, href |-> "https://a.example/news",
       body |-> Str(TextOf(<<>>, MAX_CONTENT_LENGTH + MIN_CONTENT_LENGTH,
                           <<32, 10, 10, 9>>, <<32, 10>>))],
      [ogTitle |-> Undefined, articleH1 |-> Str(<<72, 49, 32>>),
       title |-> <<68>>, href |-> "https://a.example/news",
       body |-> Str(TextOf(<<>>, 1, <<32>>, <<>>))],
      [ogTitle |-> Undefined, articleH1 |-> Undefined,
       title |-> <<68>>, href |-> "https://a.example/news", body |-> Null] }

\* before a page is loaded
NoDocument ==
    [ogTitle |-> Undefined, articleH1 |-> Undefined, title |-> <<>>,
     href |-> "about:blank", body |-> Null]

ContentFrame == UNCHANGED <<storeVars, histVars, bgVars, popupVars>>

\* the tab loads a page; the content script is injected anew
PageLoads(doc) ==
    /\ document' = doc
    /\ extraction' = Undefined
    /\ ContentFrame

\* content.js, lines 167-173: the listener answers EXTRACT_CONTENT
OnExtractContentMessage ==
    /\ extraction' = extractArticleContent(document)
    /\ UNCHANGED document
    /\ ContentFrame

(***************************************************************************)
(* background.js: one summarize request                                    *)
(***************************************************************************)
\* background.js:378, selectedText.substring(0, 10000)
SELECTION_LIMIT == 10000

\* API_ENDPOINTS[provider] || API_ENDPOINTS.openai
ApiUrl(provider) ==
    IF provider = "openrouter"
    THEN "https://openrouter.ai/api/v1/chat/completions"
    ELSE "https://api.openai.com/v1/chat/completions"

\* DEFAULT_MODELS[provider] || DEFAULT_MODELS.openai
ApiModel(provider) ==
    IF provider = "openrouter" THEN "openai/gpt-3.5-turbo" ELSE "gpt-3.5-turbo"

\* background.js getApiKey: result.apiKey || null
getApiKey == IF Truthy(syncStorage.apiKey) THEN syncStorage.apiKey ELSE Null

\* a configuration check that only knows undefined: apiKey === undefined
NotConfiguredUndefinedOnly(apiKey) == apiKey[1] = "undef"

\* if (!apiKey), in handleSummarizeRequest and in summarizeSelectedText
NotConfigured(apiKey) == ~Truthy(apiKey)

\* background.js getApiProvider: result.apiProvider || 'openai'
getApiProvider ==
    IF Truthy(syncStorage.apiProvider) THEN syncStorage.apiProvider[2] ELSE "openai"

\* a user message whose body is stripped of non-ASCII characters as the title is
UserMessageAllStripped(content) ==
    <<84, 105, 116, 108, 101, 58, 32>> \o StripNonAscii(content.title)
        \o <<10, 10, 67, 111, 110, 116, 101, 110, 116, 58, 10>>
        \o StripNonAscii(content.text)

\* `Title: ${sanitizedTitle}\n\nContent:\n${sanitizedText}`
UserMessage(content) ==
    <<84, 105, 116, 108, 101, 58, 32>> \o StripNonAscii(content.title)
        \o <<10, 10, 67, 111, 110, 116, 101, 110, 116, 58, 10>> \o content.text

\* String(v) inside a template literal
ToText(v) ==
    CASE v[1] = "msg" -> v[2]
      [] v[1] = "num" -> ToString(v[2])
      [] v[1] = "null" -> "null"
      [] OTHER -> "undefined"

\* the POST generateSummary hands to fetch
HttpRequest(content, apiKey, provider) ==
    [url |-> ApiUrl(provider), model |-> ApiModel(provider),
     authorization |-> "Bearer " \o ToText(apiKey),
     userMessage |-> UserMessage(content),
     openRouterHeaders |-> provider = "openrouter"]

NoTab == [title |-> <<>>, url |-> ""]
NoContent == [title |-> <<>>, text |-> <<>>, url |-> ""]
NoDisplay == [isError |-> FALSE, text |-> Undefined]

IdleReq ==
    [pc |-> "idle", origin |-> "none", tab |-> NoTab, text |-> Undefined,
     apiKey |-> Undefined, provider |-> "", extracted |-> Undefined,
     content |-> NoContent, status |-> 0,
     data |-> Undefined, show |-> NoDisplay, inCatch |-> FALSE]
IdleNet == [requests |-> <<>>, timer |-> "none", elapsed |-> FALSE]
IdleOut == [results |-> <<>>, replies |-> <<>>, shown |-> <<>>]

\* ---- what the browser, the page and the provider can hand to the request
Titles == { <<>>, <<67, 97, 102, 233>> }
Tabs == { [title |-> t, url |-> "https://a.example/news"] : t \in Titles }
\* chrome.tabs.query: no result, no tab, or the active tab
TabsResults == {Undefined, Arr(<<>>)} \cup { Arr(<<t>>) : t \in Tabs }
\* window.getSelection().toString()
Selections ==
    { <<>>, <<32>>, <<10, 32>>, <<32, 104, 105, 32>>,
      <<32>> \o Letters(SELECTION_LIMIT + 1) }
\* info.selectionText of a context-menu click
SelectionTexts == {Undefined} \cup { Str(t) : t \in Selections }
\* the reply of the content script to EXTRACT_CONTENT (none: undefined)
ExtractorReplies ==
    {Undefined} \cup { extractArticleContent(doc) : doc \in SampleDocuments }
\* the message of an exception chrome.scripting or chrome.tabs raises
ScriptingErrors == {"Cannot access contents of the page"}
HttpStatuses == {200, 204, 400, 401, 404, 429, 500, 501, 502, 503, 504, 599}
\* response.ok
Ok(status) == status >= 200 /\ status <= 299
\* the parsed body of a non-2xx response; unparseable: response.json() rejects
ErrorBodies ==
    { Null, Num(7), Obj([detail |-> Msg("nope")]),
      Obj([error |-> Null]), Obj([error |-> Msg("denied")]),
      Obj([error |-> Obj([code |-> Num(1)])]),
      Obj([error |-> Obj([message |-> Msg("")])]),
      Obj([error |-> Obj([message |-> Msg("Quota exceeded")])]),
      Obj([error |-> Obj([message |-> Num(42)])]) }
\* the parsed body of a 2xx response
Choice(message) == Obj([choices |-> Arr(<<Obj([message |-> message])>>)])
CompletionBodies ==
    { Null, Obj([id |-> Msg("x")]), Obj([choices |-> Null]),
      Obj([choices |-> Arr(<<>>)]), Obj([choices |-> Arr(<<Null>>)]),
      Obj([choices |-> Arr(<<Obj([index |-> Num(0)])>>)]),
      Choice(Null), Choice(Obj([role |-> Msg("assistant")])),
      Choice(Obj([content |-> Null])), Choice(Obj([content |-> Num(5)])),
      Choice(Obj([content |-> Str(<<>>)])), Choice(Obj([content |-> Str(<<32, 10>>)])),
      Choice(Obj([content |-> Str(<<32, 79, 75, 46, 10>>)])) }
\* why response.json() can reject on a 2xx response
BodyErrors ==
    { Throws("SyntaxError", "Unexpected token < in JSON at position 0"),
      Throws("TypeError", "network error") }

\* sendResponse serialises the message as JSON: a property whose value is
\* undefined (error: result.error of a success) is not sent
Serialized(payload) ==
    IF "error" \in DOMAIN payload /\ payload.error[1] = "undef"
    THEN [k \in DOMAIN payload \ {"error"} |-> payload[k]]
    ELSE payload

\* showSelectionSummary: what the injected popup shows for a result
Display(result) ==
    IF result.success
    THEN [isError |-> FALSE, text |-> Str(result.summary)]
    ELSE [isError |-> TRUE, text |-> Msg("Error: " \o ToText(result.error))]

\* sendResponse({ type: 'SUMMARY_RESULT', payload })
ReplyFrom(r, payload) ==
    /\ out' = [out EXCEPT !.replies = Append(@, Serialized(payload))]
    /\ req' = [r EXCEPT !.pc = "done"]

Reply(payload) == ReplyFrom(req, payload)

\* the request's storage variables stay as they are
BgFrame == UNCHANGED <<storeVars, histVars, syncStorage, pageVars, popupVars>>

RequestOver == req.pc \in {"idle", "done", "fault"}

\* onMessage GENERATE_SUMMARY, to the callback of chrome.tabs.query
GenerateSummaryMessage(tabs) ==
    /\ RequestOver
    /\ BgFrame
    /\ net' = IdleNet
    /\ IF ~Truthy(tabs) \/ Len(tabs[2]) = 0
       THEN /\ out' = [IdleOut EXCEPT !.replies =
                          <<Serialized(Failure(Msg(MsgNoActiveTab)))>>]
            /\ req' = [IdleReq EXCEPT !.pc = "done", !.origin = "GENERATE_SUMMARY"]
       ELSE /\ out' = IdleOut
            /\ req' = [IdleReq EXCEPT !.pc = "config", !.origin = "GENERATE_SUMMARY",
                                      !.tab = tabs[2][1]]

\* handleSummarizeRequest, lines 208-221: the configuration is read
HandleSummarizeRequest ==
    /\ req.pc = "config"
    /\ BgFrame
    /\ UNCHANGED net
    /\ LET apiKey == getApiKey
           provider == getApiProvider
       IN  IF NotConfigured(apiKey)
           THEN LET result == [summary |-> <<>>, title |-> <<>>, url |-> "",
                               success |-> FALSE, error |-> Msg(MsgNotConfigured)]
                IN  /\ out' = [out EXCEPT !.results = Append(@, result),
                                          !.replies = Append(@, Serialized(result))]
                    /\ req' = [req EXCEPT !.pc = "done", !.apiKey = apiKey,
                                          !.provider = provider]
           ELSE /\ out' = out
                /\ req' = [req EXCEPT !.pc = "extract", !.apiKey = apiKey,
                                      !.provider = provider]

\* a fetch that is sent a second time
StartFetchTwice(content, apiKey, provider) ==
    net' = [net EXCEPT !.requests = @ \o <<HttpRequest(content, apiKey, provider),
                                           HttpRequest(content, apiKey, provider)>>,
                       !.timer = "armed"]

\* generateSummary up to the await of fetch: the POST is sent, the timer is set
StartFetch(content, apiKey, provider) ==
    net' = [net EXCEPT !.requests = Append(@, HttpRequest(content, apiKey, provider)),
                       !.timer = "armed"]

\* an error that is always the fixed text
ExtractionErrorFixed(c) == Msg(MsgExtractFallback)

\* content.error || 'Failed to extract content from page.'
ExtractionError(c) == IF Truthy(c.error) THEN c.error ELSE Msg(MsgExtractFallback)

\* extractContentFromTab and handleSummarizeRequest, lines 224-236: `outcome` is
\* what injecting content.js and asking it for the content gave; req.extracted
\* keeps what extractContentFromTab returned
ExtractContent(outcome) ==
    /\ req.pc = "extract"
    /\ BgFrame
    /\ LET content ==
             IF outcome.returns THEN outcome.value
             ELSE Obj([title |-> <<>>, text |-> <<>>, url |-> "", success |-> FALSE,
                       error |-> Msg(MsgExtractFailed(outcome.message))])
           r == [req EXCEPT !.extracted = content]
       IN  IF IsNullish(content)
           THEN \* content.success throws: the rejection is not handled, no reply
                /\ req' = [r EXCEPT !.pc = "fault"]
                /\ UNCHANGED <<net, out>>
           ELSE IF ~content[2].success
           THEN LET c == content[2]
                    result == [summary |-> <<>>,
                               title |-> c.title,
                               url |-> c.url,
                               success |-> FALSE,
                               error |-> ExtractionError(c)]
                IN  /\ out' = [out EXCEPT !.results = Append(@, result),
                                          !.replies = Append(@, Serialized(result))]
                    /\ req' = [r EXCEPT !.pc = "done"]
                    /\ UNCHANGED net
           ELSE LET c == [title |-> content[2].title, text |-> content[2].text,
                          url |-> content[2].url]
                IN  /\ StartFetch(c, req.apiKey, req.provider)
                    /\ req' = [r EXCEPT !.pc = "fetching", !.content = c]
                    /\ UNCHANGED out

\* result.error
ErrorOf(result) == IF "error" \in DOMAIN result THEN result.error ELSE Undefined

\* s || 'Selected Text'
OrSelectedText(s) == IF s # <<>> THEN s ELSE SelectedText

\* generateSummary (or summarizeSelectedText) returns `result` to its caller, and
\* the caller goes on to its end: handleSummarizeRequest and the two message
\* listeners reply, the context menu and the shortcut go to showSelectionSummary
FinishFrom(r, result) ==
    CASE r.origin = "GENERATE_SUMMARY" ->
           LET payload == [summary |-> result.summary, title |-> r.content.title,
                           url |-> r.content.url, success |-> result.success,
                           error |-> ErrorOf(result)]
           IN  /\ out' = [out EXCEPT !.results = @ \o <<result, payload>>,
                                     !.replies = Append(@, Serialized(payload))]
               /\ req' = [r EXCEPT !.pc = "done"]
      [] r.origin = "SUMMARIZE_SELECTION" ->
           LET payload == [summary |-> result.summary,
                           title |-> OrSelectedText(r.tab.title),
                           url |-> r.tab.url, success |-> result.success,
                           error |-> ErrorOf(result)]
           IN  /\ out' = [out EXCEPT !.results = Append(@, result),
                                     !.replies = Append(@, Serialized(payload))]
               /\ req' = [r EXCEPT !.pc = "done"]
      [] OTHER ->
           /\ out' = [out EXCEPT !.results = Append(@, result)]
           /\ req' = [r EXCEPT !.pc = "show", !.show = Display(result)]

Finish(result) == FinishFrom(req, result)

\* fetch resolves with the response headers: clearTimeout, then response.ok
FetchResolves(status) ==
    /\ req.pc = "fetching"
    /\ BgFrame
    /\ net' = [net EXCEPT !.timer = "cleared"]
    /\ req' = [req EXCEPT !.pc = IF Ok(status) THEN "body" ELSE "errorBody",
                          !.status = status]
    /\ UNCHANGED out

\* fetch rejects (the network is down, the host does not resolve): the catch
\* block; the timer is left as it is
FetchRejects(message) ==
    /\ req.pc = "fetching"
    /\ BgFrame
    /\ UNCHANGED net
    /\ Finish(CatchResult("TypeError", message))

\* REQUEST_TIMEOUT after setTimeout.  A timer that is still set runs its callback:
\* controller.abort(), fetch rejects with an AbortError.  A timer that
\* clearTimeout has cancelled runs nothing.
ThirtySecondsPass ==
    /\ req.pc \in {"fetching", "errorBody", "body"}
    /\ ~net.elapsed
    /\ BgFrame
    /\ IF net.timer = "armed"
       THEN /\ net' = [net EXCEPT !.elapsed = TRUE, !.timer = "fired"]
            /\ Finish(CatchResult("AbortError", "The user aborted a request."))
       ELSE /\ net' = [net EXCEPT !.elapsed = TRUE]
            /\ UNCHANGED <<req, out>>

\* generateSummary, lines 124-127: the body of a non-2xx response has been read;
\* a body that does not parse becomes {}
ErrorBodyRead(parses, body) ==
    /\ req.pc = "errorBody"
    /\ BgFrame
    /\ UNCHANGED net
    /\ LET errorData == IF parses THEN body ELSE Obj(<<>>)
       IN  FinishFrom([req EXCEPT !.data = errorData],
                      TryResult(handleApiError(req.status, errorData)))

\* generateSummary, lines 129-152: response.json() of a 2xx response has settled
BodyRead(outcome) ==
    /\ req.pc = "body"
    /\ BgFrame
    /\ UNCHANGED net
    /\ IF outcome.returns
       THEN FinishFrom([req EXCEPT !.data = outcome.value],
                       TryResult(SummaryFromData(outcome.value)))
       ELSE Finish(TryResult(outcome))

\* !selectedText || selectedText.trim().length === 0
NothingSelected(text) == text = <<>> \/ Len(Trim(text)) = 0

\* onMessage SUMMARIZE_SELECTION, to the callback of chrome.tabs.query
SummarizeSelectionMessage(tabs) ==
    /\ RequestOver
    /\ BgFrame
    /\ net' = IdleNet
    /\ IF ~Truthy(tabs) \/ Len(tabs[2]) = 0
       THEN /\ out' = [IdleOut EXCEPT !.replies =
                          <<Serialized(Failure(Msg(MsgNoActiveTab)))>>]
            /\ req' = [IdleReq EXCEPT !.pc = "done", !.origin = "SUMMARIZE_SELECTION"]
       ELSE /\ out' = IdleOut
            /\ req' = [IdleReq EXCEPT !.pc = "selection",
                                      !.origin = "SUMMARIZE_SELECTION",
                                      !.tab = tabs[2][1]]

\* commands.onCommand 'summarize-selection', to the result of chrome.tabs.query;
\* without a tab the handler returns
CommandReceived(tabs) ==
    /\ RequestOver
    /\ BgFrame
    /\ net' = IdleNet
    /\ out' = IdleOut
    /\ req' = IF Len(tabs[2]) = 0
              THEN [IdleReq EXCEPT !.pc = "done", !.origin = "command"]
              ELSE [IdleReq EXCEPT !.pc = "selection", !.origin = "command",
                                   !.tab = tabs[2][1]]

\* what the catch block of the shortcut handler shows
CommandCatch(message) ==
    [req EXCEPT !.pc = "show", !.inCatch = TRUE,
                !.show = Display([success |-> FALSE,
                                  error |-> Msg("Error: " \o message)])]

\* the script reading window.getSelection() has settled (message listener,
\* lines 292-333, and shortcut, lines 530-545)
SelectionRead(outcome) ==
    /\ req.pc = "selection"
    /\ BgFrame
    /\ UNCHANGED net
    /\ IF req.origin = "SUMMARIZE_SELECTION"
       THEN IF ~outcome.returns
            THEN Reply(Failure(Msg(MsgSelectionFailed(outcome.message))))
            ELSE IF NothingSelected(outcome.value)
            THEN ReplyFrom([req EXCEPT !.text = Str(outcome.value)],
                           Failure(Msg(MsgNoSelectionPopup)))
            ELSE /\ req' = [req EXCEPT !.pc = "selConfig", !.text = Str(outcome.value)]
                 /\ UNCHANGED out
       ELSE /\ UNCHANGED out
            /\ IF ~outcome.returns
               THEN req' = CommandCatch(outcome.message)
               ELSE IF NothingSelected(outcome.value)
               THEN req' = [req EXCEPT !.pc = "show", !.text = Str(outcome.value),
                               !.show = Display([success |-> FALSE,
                                                 error |-> Msg(MsgNoSelectionCommand)])]
               ELSE req' = [req EXCEPT !.pc = "loading", !.text = Str(outcome.value)]

\* contextMenus.onClicked, lines 487-488: without a selection text nothing is done
ContextMenuClicked(tab, selectionText) ==
    /\ RequestOver
    /\ BgFrame
    /\ net' = IdleNet
    /\ out' = IdleOut
    /\ req' = IF ~Truthy(selectionText)
              THEN \* info.selectionText is undefined or '': nothing is done
                   [IdleReq EXCEPT !.pc = "done", !.origin = "contextMenu",
                                   !.tab = tab, !.text = selectionText]
              ELSE [IdleReq EXCEPT !.pc = "loading", !.origin = "contextMenu",
                                   !.tab = tab, !.text = selectionText]

\* the script showing "Summarizing..." has settled (lines 490-514, 548-572); its
\* failure is caught in the shortcut handler only
LoadingInjected(outcome) ==
    /\ req.pc = "loading"
    /\ BgFrame
    /\ UNCHANGED <<net, out>>
    /\ req' = IF outcome.returns THEN [req EXCEPT !.pc = "selConfig"]
              ELSE IF req.origin = "command" THEN CommandCatch(outcome.message)
              ELSE [req EXCEPT !.pc = "fault"]

\* summarizeSelectedText: the configuration is read, then the tab's title
\* (`tabFound`: chrome.tabs.get did not throw), then generateSummary is called
summarizeSelectedText(tabFound) ==
    /\ req.pc = "selConfig"
    /\ BgFrame
    /\ LET apiKey == getApiKey
           provider == getApiProvider
           r == [req EXCEPT !.apiKey = apiKey, !.provider = provider]
       IN  IF NotConfigured(apiKey)
           THEN /\ FinishFrom(r, Failure(Msg(MsgNotConfigured)))
                /\ UNCHANGED net
           ELSE LET pageTitle == IF tabFound THEN OrSelectedText(req.tab.title)
                                 ELSE SelectedText
                    content == [title |-> pageTitle,
                                text |-> Substring0(req.text[2], SELECTION_LIMIT),
                                url |-> ""]
                IN  /\ StartFetch(content, apiKey, provider)
                    /\ req' = [r EXCEPT !.pc = "fetching", !.content = content]
                    /\ UNCHANGED out

\* showSelectionSummary: the script injecting the result popup has settled; in
\* the shortcut handler a failure inside the try block is caught and shown
ShowSelectionSummary(outcome) ==
    /\ req.pc = "show"
    /\ BgFrame
    /\ UNCHANGED net
    /\ IF outcome.returns
       THEN /\ out' = [out EXCEPT !.shown = Append(@, req.show)]
            /\ req' = [req EXCEPT !.pc = "done"]
       ELSE /\ UNCHANGED out
            /\ req' = IF req.origin = "command" /\ ~req.inCatch
                      THEN CommandCatch(outcome.message)
                      ELSE [req EXCEPT !.pc = "fault"]

(***************************************************************************)
(* popup.js, storage.js: saved summaries                                   *)
(***************************************************************************)
\* a placeholder for the entry field of a call that carries none
NoEntry == [id |-> 0, url |-> "", title |-> <<>>, summary |-> <<>>, savedAt |-> 0]

\* The ids generateUUID can return.  Each of the 31 hex digits is drawn with
\* Math.random(), so nothing excludes an id that is already in use: the sample
\* holds the id of the oldest initial entry and NumFreshIds others.
generateUUID == {1} \cup ((MAX_SAVED + 1) .. (MAX_SAVED + NumFreshIds))

\* what a summarize request can hand to showSummary: {summary, title, url}
ShownResults ==
    { [summary |-> <<97>>, title |-> <<84>>, url |-> "https://a.example/"],
      [summary |-> <<98>>, title |-> <<>>, url |-> "https://b.example/"] }

\* what a caller can hand to storage.js saveSummary
SummaryArgs == { [summary |-> <<99>>, title |-> <<85>>, url |-> "https://c.example/"] }

\* ids a caller can hand to storage.js deleteSummary: 0 is never in the list
DeleteArgs == {0, 1, 2, MAX_SAVED + 1}

\* an initial persisted list of n entries with distinct ids, newest first
InitialList(n) ==
    [i \in 1..n |-> [id |-> n + 1 - i, url |-> "https://old.example/",
                     title |-> <<79>>, summary |-> <<111>>, savedAt |-> 0]]

InitialLengths == {0, 3, MAX_SAVED - 1, MAX_SAVED}

\* the <li> elements the user clicks in this model: first, second and last
ClickPositions(list) == {1, 2, Len(list)} \cap DOMAIN list

Call(kind, pc, entry, id, summaries) ==
    [kind |-> kind, pc |-> pc, entry |-> entry, id |-> id, summaries |-> summaries]

RemoveCall(i) == SubSeq(calls, 1, i - 1) \o SubSeq(calls, i + 1, Len(calls))

SetCall(i, c) == [calls EXCEPT ![i] = c]

\* what the history keeps of a completed operation: its kind, the id it saved
\* or deleted, and how often that id occurred in the list it replaced
OpDone(kind, id, old) ==
    [kind |-> kind, id |-> id, lenBefore |-> Len(old),
     hits |-> Cardinality({k \in DOMAIN old : old[k].id = id})]

NoOp == [kind |-> "none", id |-> 0, lenBefore |-> 0, hits |-> 0]

\* Date.now(): the clock has advanced since the last reading
Now == clock + 1

\* popup.js showLoading: the loading section alone is shown.  (The texts the
\* three functions write into the sections are not part of the model.)
showLoading ==
    /\ visible' = {"loading"}
    /\ UNCHANGED <<currentSummary, savedSummaries>>

\* popup.js showError: the options and the error section are shown; the
\* current-result slot is not assigned
showError ==
    /\ visible' = {"options", "error"}
    /\ UNCHANGED <<currentSummary, savedSummaries>>

\* a showSummary that leaves the loading section as it is
showSummaryKeepsLoading(r) ==
    /\ visible' = (visible \cap {"loading"}) \cup {"summary"}
    /\ currentSummary' = Obj([summary |-> r.summary, title |-> r.title, url |-> r.url])
    /\ UNCHANGED savedSummaries

\* a showSummary that also puts the result at the head of the persisted list
showSummaryAutoSaves(r) ==
    /\ visible' = {"summary"}
    /\ currentSummary' = Obj([summary |-> r.summary, title |-> r.title, url |-> r.url])
    /\ savedSummaries' =
          Arr(Unshift(OrEmptyArray(savedSummaries),
                      [id |-> 0, url |-> r.url, title |-> r.title,
                       summary |-> r.summary, savedAt |-> clock]))

\* popup.js showSummary: the summary section alone is shown and the
\* current-result slot is set; nothing is written to storage
showSummary(r) ==
    /\ visible' = {"summary"}
    /\ currentSummary' = Obj([summary |-> r.summary, title |-> r.title, url |-> r.url])
    /\ UNCHANGED savedSummaries

\* what the functions of the main view leave alone
PopupFrame ==
    UNCHANGED <<currentDetailSummary, savedList, view, calls, loadsPending, clock,
                opsStarted, histVars, pageVars>>

\* the payloads of the replies the popup gets: the successes of ShownResults, a
\* failure of handleSummarizeRequest and the failure without title and url
SuccessPayloads ==
    { Obj([summary |-> r.summary, title |-> r.title, url |-> r.url,
           success |-> TRUE]) : r \in ShownResults }
FailurePayloads ==
    { Obj([summary |-> <<>>, title |-> <<84>>, url |-> "https://a.example/",
           success |-> FALSE, error |-> Msg(MsgNotConfigured)]),
      Obj(Failure(Msg(MsgNoActiveTab))) }
\* what chrome.runtime.sendMessage resolves to: nothing, or {type, payload}
PageResponses ==
    {Undefined} \cup { Obj([payload |-> p]) : p \in SuccessPayloads \cup FailurePayloads }
\* a reply to SUMMARIZE_SELECTION has a title: tab.title || 'Selected Text'
SelectionResponses ==
    {Undefined}
    \cup { Obj([payload |-> p]) :
             p \in { q \in SuccessPayloads : q[2].title # <<>> } \cup FailurePayloads }

\* the replies that show a summary
SuccessResponses == { Obj([payload |-> p]) : p \in SuccessPayloads }

\* a test on the presence of a title instead of the success flag
SucceededIfTitled(payload) == "title" \in DOMAIN payload[2]

\* if (success), after const { summary, title, url, success, error } = payload
Succeeded(payload) == payload[2].success

\* response && response.payload, and success in the payload
ShowsSummary(response) ==
    /\ Truthy(response)
    /\ Truthy(GetProp(response, "payload"))
    /\ Succeeded(response[2].payload)

\* popup.js triggerSummarization, lines 110-120: sendMessage has resolved with
\* `response`
SummaryReplied(response) ==
    IF ShowsSummary(response)
    THEN LET payload == response[2].payload
         IN  showSummary([summary |-> payload[2].summary,
                          title |-> payload[2].title, url |-> payload[2].url])
    ELSE showError

\* popup.js triggerSelectionSummarization, lines 135-145
SelectionReplied(response) ==
    IF ShowsSummary(response)
    THEN LET payload == response[2].payload
         IN  showSummary([summary |-> payload[2].summary,
                          title |-> OrSelectedText(payload[2].title),
                          url |-> payload[2].url])
    ELSE showError

\* popup.js triggerSummarization once sendMessage has resolved, for a request
\* that was sent before the behaviour starts
triggerSummarization(response) ==
    /\ SummaryReplied(response)
    /\ PopupFrame
    /\ UNCHANGED <<bgVars, awaiting, triggered, lastSettled>>

\* popup.js triggerSelectionSummarization once sendMessage has resolved
triggerSelectionSummarization(response) ==
    /\ SelectionReplied(response)
    /\ PopupFrame
    /\ UNCHANGED <<bgVars, awaiting, triggered, lastSettled>>

\* nothing has settled since the last request was sent
NoneSettled == [seq |-> 0, type |-> "none", success |-> FALSE, summary |-> <<>>]

\* popup.js triggerSummarization and triggerSelectionSummarization up to the
\* await: showLoading, then chrome.runtime.sendMessage({ type }).  `retryOf` is
\* the type of the request whose failure the retry button was shown for.
SendMessage(type, retryOf) ==
    /\ triggered < MaxRequests
    /\ showLoading
    /\ awaiting' = Append(awaiting, [type |-> type, seq |-> triggered + 1,
                                     retryOf |-> retryOf])
    /\ triggered' = triggered + 1
    /\ lastSettled' = NoneSettled
    /\ PopupFrame

\* what the settings form can hold when Save is clicked: the key after trim()
\* and the selected provider
KeyInputs == {Msg(""), Msg("sk-new")}
ProviderInputs == {Msg("openai"), Msg("openrouter")}

\* settingsBtn click handler: showView('settings'); the callback of the
\* storage get only fills the inputs of the form
settingsBtnClick ==
    /\ view' = "settings"
    /\ UNCHANGED <<savedSummaries, currentSummary, currentDetailSummary, savedList,
                   calls, loadsPending, clock, opsStarted, histVars, pageVars,
                   popupVars>>

\* saveKeyBtn click handler: with a key in the input, saveApiSettings stores
\* key and provider, then showView('main') and triggerSummarization() up to
\* its await
saveKeyBtnClick(key, provider) ==
    /\ Truthy(key)
    /\ syncStorage' = [apiKey |-> key, apiProvider |-> provider]
    /\ view' = "main"
    /\ triggered < MaxRequests
    /\ showLoading
    /\ awaiting' = Append(awaiting, [type |-> "GENERATE_SUMMARY",
                                     seq |-> triggered + 1, retryOf |-> "none"])
    /\ triggered' = triggered + 1
    /\ lastSettled' = NoneSettled
    /\ UNCHANGED <<currentDetailSummary, savedList, calls, loadsPending, clock,
                   opsStarted, histVars, pageVars>>

\* summarizePageBtn click handler
summarizePageBtnClick == SendMessage("GENERATE_SUMMARY", "none")

\* summarizeSelectionBtn click handler
summarizeSelectionBtnClick == SendMessage("SUMMARIZE_SELECTION", "none")

\* retryBtn click handler, on the error of the request that settled last
retryBtnClick ==
    /\ lastSettled.type # "none" /\ ~lastSettled.success
    /\ SendMessage("GENERATE_SUMMARY", lastSettled.type)

\* the promise of the k-th sendMessage settles and the function that awaits it
\* goes on: on a rejection the catch block shows the error
SendMessageSettles(k, outcome) ==
    /\ k \in DOMAIN awaiting
    /\ awaiting' = SubSeq(awaiting, 1, k - 1) \o SubSeq(awaiting, k + 1, Len(awaiting))
    /\ UNCHANGED triggered
    /\ PopupFrame
    /\ LET m == awaiting[k]
       IN  IF outcome.returns
           THEN /\ IF m.type = "GENERATE_SUMMARY"
                   THEN SummaryReplied(outcome.value)
                   ELSE SelectionReplied(outcome.value)
                /\ lastSettled' =
                      [seq |-> m.seq, type |-> m.type,
                       success |-> ShowsSummary(outcome.value),
                       summary |-> IF ShowsSummary(outcome.value)
                                   THEN outcome.value[2].payload[2].summary
                                   ELSE <<>>]
           ELSE /\ showError
                /\ lastSettled' = [seq |-> m.seq, type |-> m.type,
                                   success |-> FALSE, summary |-> <<>>]

\* popup.js loadSavedSummaries: the storage get calls back and the list is rendered
LoadSavedSummariesCallback ==
    /\ UNCHANGED <<bgVars, pageVars, popupVars>>
    /\ loadsPending > 0
    /\ loadsPending' = loadsPending - 1
    /\ savedList' = OrEmptyArray(savedSummaries)
    /\ UNCHANGED <<savedSummaries, currentSummary, currentDetailSummary, view, calls,
                   clock, opsStarted, histVars>>

\* popup.js showSummaryDetail, from the click handler of a rendered entry
showSummaryDetail(summary) ==
    /\ UNCHANGED <<bgVars, pageVars, popupVars>>
    /\ currentDetailSummary' = Obj(summary)
    /\ view' = "detail"
    /\ UNCHANGED <<savedSummaries, currentSummary, savedList, calls, loadsPending,
                   clock, opsStarted, histVars>>

\* a save that cuts with slice(-MAX_SAVED): the newest entries fall off
SavedAfterUnshiftKeepsTail(summaries, e) ==
    LET s == Unshift(summaries, e)
    IN  IF Len(s) > MAX_SAVED THEN SubSeq(s, Len(s) - MAX_SAVED + 1, Len(s)) ELSE s

\* a save that unshifts its entry twice
SavedAfterUnshiftTwice(summaries, e) ==
    LET s == Unshift(Unshift(summaries, e), e)
    IN  IF Len(s) > MAX_SAVED THEN Slice0(s, MAX_SAVED) ELSE s

\* a save that never cuts the list
SavedAfterUnshiftNoCut(summaries, e) == Unshift(summaries, e)

\* the list a save writes back: unshift, then cut to the first MAX_SAVED
SavedAfterUnshift(summaries, e) ==
    LET s == Unshift(summaries, e)
    IN  IF Len(s) > MAX_SAVED THEN Slice0(s, MAX_SAVED) ELSE s

\* popup.js saveCurrentSummary up to the storage get
saveCurrentSummary ==
    IF currentSummary = Null
    THEN UNCHANGED vars
    ELSE /\ UNCHANGED <<bgVars, pageVars, popupVars>>
         /\ opsStarted < MaxOps
         /\ \E id \in generateUUID :
              /\ clock' = Now
              /\ calls' = Append(calls,
                    Call("popupSave", "get",
                         [id |-> id, url |-> currentSummary[2].url,
                          title |-> currentSummary[2].title,
                          summary |-> currentSummary[2].summary, savedAt |-> Now],
                         0, <<>>))
         /\ opsStarted' = opsStarted + 1
         /\ UNCHANGED <<savedSummaries, currentSummary, currentDetailSummary,
                        savedList, view, loadsPending, histVars>>

\* popup.js saveCurrentSummary: the callback of chrome.storage.local.get
saveCurrentSummaryGet(i) ==
    /\ UNCHANGED <<bgVars, pageVars, popupVars>>
    /\ calls[i].kind = "popupSave" /\ calls[i].pc = "get"
    /\ LET summaries == OrEmptyArray(savedSummaries)
       IN  calls' = SetCall(i, [calls[i] EXCEPT !.pc = "set", !.summaries = SavedAfterUnshift(summaries, calls[i].entry)])
    /\ UNCHANGED <<savedSummaries, currentSummary, currentDetailSummary, savedList,
                   view, loadsPending, clock, opsStarted, histVars>>

\* popup.js saveCurrentSummary: the set is done and its callback runs
saveCurrentSummarySet(i) ==
    /\ UNCHANGED <<bgVars, pageVars, popupVars>>
    /\ calls[i].kind = "popupSave" /\ calls[i].pc = "set"
    /\ savedSummaries' = Arr(calls[i].summaries)
    /\ loadsPending' = loadsPending + 1
    /\ calls' = RemoveCall(i)
    /\ saveLog' = <<calls[i].entry>> \o saveLog
    /\ lastOp' = OpDone("save", calls[i].entry.id, OrEmptyArray(savedSummaries))
    /\ UNCHANGED <<currentSummary, currentDetailSummary, savedList, view, clock,
                   opsStarted, initLen, deletes, deletedIds>>

\* popup.js deleteCurrentSummary up to the storage get
deleteCurrentSummary ==
    IF currentDetailSummary = Null
    THEN UNCHANGED vars
    ELSE /\ UNCHANGED <<bgVars, pageVars, popupVars>>
         /\ opsStarted < MaxOps
         /\ calls' = Append(calls, Call("popupDelete", "get", NoEntry, 0, <<>>))
         /\ opsStarted' = opsStarted + 1
         /\ UNCHANGED <<savedSummaries, currentSummary, currentDetailSummary,
                        savedList, view, loadsPending, clock, histVars>>

\* what the history keeps of a storage callback that threw
OpThrew(old) == [kind |-> "threw", id |-> 0, lenBefore |-> Len(old), hits |-> 0]

\* popup.js deleteCurrentSummary: the callback of chrome.storage.local.get.  The
\* predicate of the filter reads currentDetailSummary.id for every entry when
\* the callback runs: with the slot null and an entry to test it throws a
\* TypeError, the set is never called and the promise never resolves; with no
\* entry the predicate is not evaluated and the empty list is written.
deleteCurrentSummaryGet(i) ==
    /\ UNCHANGED <<bgVars, pageVars, popupVars>>
    /\ calls[i].kind = "popupDelete" /\ calls[i].pc = "get"
    /\ LET summaries == OrEmptyArray(savedSummaries)
       IN  IF currentDetailSummary = Null /\ summaries # <<>>
           THEN /\ calls' = RemoveCall(i)
                /\ lastOp' = OpThrew(summaries)
           ELSE /\ IF currentDetailSummary = Null
                   THEN calls' = SetCall(i, [calls[i] EXCEPT !.pc = "set",
                                   !.summaries = <<>>])
                   ELSE LET id == currentDetailSummary[2].id
                        IN  calls' = SetCall(i, [calls[i] EXCEPT !.pc = "set",
                                        !.id = id,
                                        !.summaries = FilterOutId(summaries, id)])
                /\ UNCHANGED lastOp
    /\ UNCHANGED <<savedSummaries, currentSummary, currentDetailSummary, savedList,
                   view, loadsPending, clock, opsStarted, initLen, saveLog, deletes,
                   deletedIds>>

\* popup.js deleteCurrentSummary: the set is done and its callback runs
deleteCurrentSummarySet(i) ==
    /\ UNCHANGED <<bgVars, pageVars, popupVars>>
    /\ calls[i].kind = "popupDelete" /\ calls[i].pc = "set"
    /\ savedSummaries' = Arr(calls[i].summaries)
    /\ currentDetailSummary' = Null
    /\ view' = "main"
    /\ loadsPending' = loadsPending + 1
    /\ calls' = RemoveCall(i)
    /\ deletes' = deletes + 1
    /\ deletedIds' = deletedIds \cup {calls[i].id}
    /\ lastOp' = OpDone("delete", calls[i].id, OrEmptyArray(savedSummaries))
    /\ UNCHANGED <<currentSummary, savedList, clock, opsStarted, initLen, saveLog>>

\* storage.js saveSummary up to the storage get
saveSummary(summary) ==
    /\ UNCHANGED <<bgVars, pageVars, popupVars>>
    /\ opsStarted < MaxOps
    /\ \E id \in generateUUID :
         /\ clock' = Now
         /\ calls' = Append(calls,
               Call("saveSummary", "get",
                    [id |-> id, url |-> summary.url, title |-> summary.title,
                     summary |-> summary.summary, savedAt |-> Now],
                    0, <<>>))
    /\ opsStarted' = opsStarted + 1
    /\ UNCHANGED <<savedSummaries, currentSummary, currentDetailSummary, savedList,
                   view, loadsPending, histVars>>

\* storage.js saveSummary: the callback of chrome.storage.local.get; with
\* chrome.runtime.lastError set the promise is rejected and nothing is written
saveSummaryGet(i, lastError) ==
    /\ UNCHANGED <<bgVars, pageVars, popupVars>>
    /\ calls[i].kind = "saveSummary" /\ calls[i].pc = "get"
    /\ IF lastError
       THEN calls' = RemoveCall(i)
       ELSE LET summaries == OrEmptyArray(savedSummaries)
            IN  calls' = SetCall(i, [calls[i] EXCEPT !.pc = "set",
                            !.summaries = SavedAfterUnshift(summaries, calls[i].entry)])
    /\ UNCHANGED <<savedSummaries, currentSummary, currentDetailSummary, savedList,
                   view, loadsPending, clock, opsStarted, histVars>>

\* storage.js saveSummary: the set has ended and its callback runs; a set that
\* failed (lastError) wrote nothing and the promise is rejected
saveSummarySet(i, lastError) ==
    /\ UNCHANGED <<bgVars, pageVars, popupVars>>
    /\ calls[i].kind = "saveSummary" /\ calls[i].pc = "set"
    /\ calls' = RemoveCall(i)
    /\ IF lastError
       THEN UNCHANGED <<savedSummaries, histVars>>
       ELSE /\ savedSummaries' = Arr(calls[i].summaries)
            /\ saveLog' = <<calls[i].entry>> \o saveLog
            /\ lastOp' = OpDone("save", calls[i].entry.id, OrEmptyArray(savedSummaries))
            /\ UNCHANGED <<initLen, deletes, deletedIds>>
    /\ UNCHANGED <<currentSummary, currentDetailSummary, savedList, view,
                   loadsPending, clock, opsStarted>>

\* storage.js deleteSummary up to the storage get
deleteSummary(id) ==
    /\ UNCHANGED <<bgVars, pageVars, popupVars>>
    /\ opsStarted < MaxOps
    /\ calls' = Append(calls, Call("deleteSummary", "get", NoEntry, id, <<>>))
    /\ opsStarted' = opsStarted + 1
    /\ UNCHANGED <<savedSummaries, currentSummary, currentDetailSummary, savedList,
                   view, loadsPending, clock, histVars>>

\* storage.js deleteSummary: the callback of chrome.storage.local.get
deleteSummaryGet(i, lastError) ==
    /\ UNCHANGED <<bgVars, pageVars, popupVars>>
    /\ calls[i].kind = "deleteSummary" /\ calls[i].pc = "get"
    /\ IF lastError
       THEN calls' = RemoveCall(i)
       ELSE LET summaries == OrEmptyArray(savedSummaries)
            IN  calls' = SetCall(i, [calls[i] EXCEPT !.pc = "set",
                            !.summaries = FilterOutId(summaries, calls[i].id)])
    /\ UNCHANGED <<savedSummaries, currentSummary, currentDetailSummary, savedList,
                   view, loadsPending, clock, opsStarted, histVars>>

\* storage.js deleteSummary: the set has ended and its callback runs
deleteSummarySet(i, lastError) ==
    /\ UNCHANGED <<bgVars, pageVars, popupVars>>
    /\ calls[i].kind = "deleteSummary" /\ calls[i].pc = "set"
    /\ calls' = RemoveCall(i)
    /\ IF lastError
       THEN UNCHANGED <<savedSummaries, histVars>>
       ELSE /\ savedSummaries' = Arr(calls[i].summaries)
            /\ deletes' = deletes + 1
            /\ deletedIds' = deletedIds \cup {calls[i].id}
            /\ lastOp' = OpDone("delete", calls[i].id, OrEmptyArray(savedSummaries))
            /\ UNCHANGED <<initLen, saveLog>>
    /\ UNCHANGED <<currentSummary, currentDetailSummary, savedList, view,
                   loadsPending, clock, opsStarted>>

(***************************************************************************)
(* SpecStore: the popup and storage.js working on the persisted list, one   *)
(* save or delete at a time (an operation starts when none is in flight).   *)
(***************************************************************************)
InitStore ==
    /\ savedSummaries \in {Undefined} \cup {Arr(InitialList(n)) : n \in InitialLengths}
    /\ currentSummary = Null
    /\ currentDetailSummary = Null
    /\ savedList = <<>>
    /\ view = "main"
    /\ calls = <<>>
    /\ loadsPending = 1
    /\ clock = 1
    /\ opsStarted = 0
    /\ initLen = Len(OrEmptyArray(savedSummaries))
    /\ saveLog = <<>>
    /\ deletes = 0
    /\ deletedIds = {}
    /\ lastOp = NoOp
    /\ visible = {"options"}
    /\ awaiting = <<>>
    /\ triggered = 0
    /\ lastSettled = NoneSettled
    /\ syncStorage = [apiKey |-> Undefined, apiProvider |-> Undefined]
    /\ req = IdleReq
    /\ net = IdleNet
    /\ out = IdleOut
    /\ document = NoDocument
    /\ extraction = Undefined

NoCallInFlight == calls = <<>> /\ loadsPending = 0

NextStore ==
    \/ \E response \in PageResponses : triggerSummarization(response)
    \/ \E response \in SelectionResponses : triggerSelectionSummarization(response)
    \/ LoadSavedSummariesCallback
    \/ \E p \in ClickPositions(savedList) : showSummaryDetail(savedList[p])
    \/ NoCallInFlight /\ saveCurrentSummary
    \/ NoCallInFlight /\ deleteCurrentSummary
    \/ \E a \in SummaryArgs : NoCallInFlight /\ saveSummary(a)
    \/ \E id \in DeleteArgs : NoCallInFlight /\ deleteSummary(id)
    \/ \E i \in DOMAIN calls : saveCurrentSummaryGet(i)
    \/ \E i \in DOMAIN calls : saveCurrentSummarySet(i)
    \/ \E i \in DOMAIN calls : deleteCurrentSummaryGet(i)
    \/ \E i \in DOMAIN calls : deleteCurrentSummarySet(i)
    \/ \E i \in DOMAIN calls, lastError \in BOOLEAN : saveSummaryGet(i, lastError)
    \/ \E i \in DOMAIN calls, lastError \in BOOLEAN : saveSummarySet(i, lastError)
    \/ \E i \in DOMAIN calls, lastError \in BOOLEAN : deleteSummaryGet(i, lastError)
    \/ \E i \in DOMAIN calls, lastError \in BOOLEAN : deleteSummarySet(i, lastError)

SpecStore == InitStore /\ [][NextStore]_vars

(***************************************************************************)
(* SpecOverlap: the same popup and storage.js, where a save or delete may   *)
(* start while the storage callbacks of another are still to come (two      *)
(* quick clicks; chrome.storage calls back asynchronously)                 *)
(***************************************************************************)
NextOverlap ==
    \/ \E response \in SuccessResponses : triggerSummarization(response)
    \/ \E response \in SuccessResponses \cap SelectionResponses :
          triggerSelectionSummarization(response)
    \/ LoadSavedSummariesCallback
    \/ \E p \in ClickPositions(savedList) : showSummaryDetail(savedList[p])
    \/ saveCurrentSummary
    \/ deleteCurrentSummary
    \/ \E a \in SummaryArgs : saveSummary(a)
    \/ \E id \in DeleteArgs : deleteSummary(id)
    \/ \E i \in DOMAIN calls : saveCurrentSummaryGet(i)
    \/ \E i \in DOMAIN calls : saveCurrentSummarySet(i)
    \/ \E i \in DOMAIN calls : deleteCurrentSummaryGet(i)
    \/ \E i \in DOMAIN calls : deleteCurrentSummarySet(i)
    \/ \E i \in DOMAIN calls, lastError \in BOOLEAN : saveSummaryGet(i, lastError)
    \/ \E i \in DOMAIN calls, lastError \in BOOLEAN : saveSummarySet(i, lastError)
    \/ \E i \in DOMAIN calls, lastError \in BOOLEAN : deleteSummaryGet(i, lastError)
    \/ \E i \in DOMAIN calls, lastError \in BOOLEAN : deleteSummarySet(i, lastError)

SpecOverlap == InitStore /\ [][NextOverlap]_vars

(***************************************************************************)
(* Spec: the background service worker serving one request after another   *)
(***************************************************************************)
ScriptOutcomes == {Returns(Undefined)} \cup { Throws("Error", m) : m \in ScriptingErrors }

Init ==
    /\ syncStorage \in [apiKey : {Undefined, Msg(""), Msg("sk-test")},
                        apiProvider : {Undefined, Msg("openai"), Msg("openrouter")}]
    /\ req = IdleReq
    /\ net = IdleNet
    /\ out = IdleOut
    /\ document = NoDocument
    /\ extraction = Undefined
    /\ savedSummaries = Undefined
    /\ currentSummary = Null
    /\ currentDetailSummary = Null
    /\ savedList = <<>>
    /\ view = "main"
    /\ calls = <<>>
    /\ loadsPending = 0
    /\ clock = 1
    /\ opsStarted = 0
    /\ initLen = 0
    /\ saveLog = <<>>
    /\ deletes = 0
    /\ deletedIds = {}
    /\ lastOp = NoOp
    /\ visible = {"options"}
    /\ awaiting = <<>>
    /\ triggered = 0
    /\ lastSettled = NoneSettled

Next ==
    \/ \E tabs \in TabsResults : GenerateSummaryMessage(tabs)
    \/ HandleSummarizeRequest
    \/ \E r \in ExtractorReplies : ExtractContent(Returns(r))
    \/ \E m \in ScriptingErrors : ExtractContent(Throws("Error", m))
    \/ \E status \in HttpStatuses : FetchResolves(status)
    \/ FetchRejects("Failed to fetch")
    \/ ThirtySecondsPass
    \/ \E body \in ErrorBodies : ErrorBodyRead(TRUE, body)
    \/ ErrorBodyRead(FALSE, Undefined)
    \/ \E data \in CompletionBodies : BodyRead(Returns(data))
    \/ \E e \in BodyErrors : BodyRead(e)
    \/ \E tabs \in TabsResults : SummarizeSelectionMessage(tabs)
    \/ \E tabs \in TabsResults \ {Undefined} : CommandReceived(tabs)
    \/ \E text \in Selections : SelectionRead(Returns(text))
    \/ \E m \in ScriptingErrors : SelectionRead(Throws("Error", m))
    \/ \E tab \in Tabs, text \in SelectionTexts : ContextMenuClicked(tab, text)
    \/ \E o \in ScriptOutcomes : LoadingInjected(o)
    \/ \E tabFound \in BOOLEAN : summarizeSelectedText(tabFound)
    \/ \E o \in ScriptOutcomes : ShowSelectionSummary(o)

Spec == Init /\ [][Next]_vars

(***************************************************************************)
(* SpecExtract: the content script in a tab that loads one page after       *)
(* another and is asked for the content of each                             *)
(***************************************************************************)
InitExtract ==
    /\ document \in Documents
    /\ extraction = Undefined
    /\ syncStorage = [apiKey |-> Undefined, apiProvider |-> Undefined]
    /\ req = IdleReq
    /\ net = IdleNet
    /\ out = IdleOut
    /\ savedSummaries = Undefined
    /\ currentSummary = Null
    /\ currentDetailSummary = Null
    /\ savedList = <<>>
    /\ view = "main"
    /\ calls = <<>>
    /\ loadsPending = 0
    /\ clock = 1
    /\ opsStarted = 0
    /\ initLen = 0
    /\ saveLog = <<>>
    /\ deletes = 0
    /\ deletedIds = {}
    /\ lastOp = NoOp
    /\ visible = {"options"}
    /\ awaiting = <<>>
    /\ triggered = 0
    /\ lastSettled = NoneSettled

NextExtract ==
    \/ \E doc \in Documents : PageLoads(doc)
    \/ OnExtractContentMessage

SpecExtract == InitExtract /\ [][NextExtract]_vars

(***************************************************************************)
(* SpecPopup: the main view of the popup and its summarize requests; a      *)
(* request may be sent while another is awaited, and the replies come in    *)
(* any order                                                                *)
(***************************************************************************)
InitPopup ==
    /\ visible = {"options"}
    /\ awaiting = <<>>
    /\ triggered = 0
    /\ lastSettled = NoneSettled
    /\ currentSummary = Null
    /\ syncStorage = [apiKey |-> Msg("sk-test"), apiProvider |-> Msg("openai")]
    /\ req = IdleReq
    /\ net = IdleNet
    /\ out = IdleOut
    /\ document = NoDocument
    /\ extraction = Undefined
    /\ savedSummaries = Undefined
    /\ currentDetailSummary = Null
    /\ savedList = <<>>
    /\ view = "main"
    /\ calls = <<>>
    /\ loadsPending = 0
    /\ clock = 1
    /\ opsStarted = 0
    /\ initLen = 0
    /\ saveLog = <<>>
    /\ deletes = 0
    /\ deletedIds = {}
    /\ lastOp = NoOp

\* why chrome.runtime.sendMessage can reject
SendMessageErrors ==
    { Throws("Error", "Could not establish connection. Receiving end does not exist.") }

\* the k-th awaited message is of this type
Awaits(k, type) == k \in DOMAIN awaiting /\ awaiting[k].type = type

NextPopup ==
    \/ summarizePageBtnClick /\ UNCHANGED bgVars
    \/ summarizeSelectionBtnClick /\ UNCHANGED bgVars
    \/ retryBtnClick /\ UNCHANGED bgVars
    \/ settingsBtnClick /\ UNCHANGED bgVars
    \/ \E key \in KeyInputs, provider \in ProviderInputs :
          saveKeyBtnClick(key, provider) /\ UNCHANGED <<req, net, out>>
    \/ \E k \in DOMAIN awaiting, response \in PageResponses :
          /\ Awaits(k, "GENERATE_SUMMARY")
          /\ SendMessageSettles(k, Returns(response))
          /\ UNCHANGED bgVars
    \/ \E k \in DOMAIN awaiting, response \in SelectionResponses :
          /\ Awaits(k, "SUMMARIZE_SELECTION")
          /\ SendMessageSettles(k, Returns(response))
          /\ UNCHANGED bgVars
    \/ \E k \in DOMAIN awaiting, e \in SendMessageErrors :
          SendMessageSettles(k, e) /\ UNCHANGED bgVars

SpecPopup == InitPopup /\ [][NextPopup]_vars

(***************************************************************************)
(* SpecRequest: the popup and the service worker together, one request at  *)
(* a time: the popup sends a message, the listener serves it step by step,  *)
(* and what it passes to sendResponse settles the popup's sendMessage       *)
(***************************************************************************)
InitRequest ==
    /\ syncStorage \in { [apiKey |-> Undefined, apiProvider |-> Undefined],
                          [apiKey |-> Msg("sk-test"), apiProvider |-> Msg("openrouter")] }
    /\ visible = {"options"}
    /\ awaiting = <<>>
    /\ triggered = 0
    /\ lastSettled = NoneSettled
    /\ currentSummary = Null
    /\ req = IdleReq
    /\ net = IdleNet
    /\ out = IdleOut
    /\ document = NoDocument
    /\ extraction = Undefined
    /\ savedSummaries = Arr(InitialList(3))
    /\ currentDetailSummary = Null
    /\ savedList = <<>>
    /\ view = "main"
    /\ calls = <<>>
    /\ loadsPending = 0
    /\ clock = 1
    /\ opsStarted = 0
    /\ initLen = 3
    /\ saveLog = <<>>
    /\ deletes = 0
    /\ deletedIds = {}
    /\ lastOp = NoOp

\* the message is on its way to the worker, whose listener has not run for it
MessagePosted ==
    /\ awaiting = <<>>
    /\ req' = IdleReq
    /\ net' = IdleNet
    /\ out' = IdleOut
    /\ UNCHANGED syncStorage

\* the listener has not yet run for the awaited message of this type
Unserved(type) == Awaits(1, type) /\ req.pc = "idle"

\* sendResponse was called: its argument settles the popup's sendMessage
ResponseArrives ==
    /\ awaiting # <<>>
    /\ req.pc = "done"
    /\ Len(out.replies) = 1
    /\ SendMessageSettles(1, Returns(Obj([payload |-> Obj(out.replies[1])])))
    /\ UNCHANGED bgVars

\* the steps of the worker on the message it is serving
WorkerStep ==
    \/ \E tabs \in TabsResults :
          Unserved("GENERATE_SUMMARY") /\ GenerateSummaryMessage(tabs)
    \/ \E tabs \in TabsResults :
          Unserved("SUMMARIZE_SELECTION") /\ SummarizeSelectionMessage(tabs)
    \/ HandleSummarizeRequest
    \/ \E r \in ExtractorReplies : ExtractContent(Returns(r))
    \/ \E m \in ScriptingErrors : ExtractContent(Throws("Error", m))
    \/ \E text \in Selections : SelectionRead(Returns(text))
    \/ \E m \in ScriptingErrors : SelectionRead(Throws("Error", m))
    \/ \E tabFound \in BOOLEAN : summarizeSelectedText(tabFound)
    \/ \E status \in HttpStatuses : FetchResolves(status)
    \/ FetchRejects("Failed to fetch")
    \/ ThirtySecondsPass
    \/ \E body \in ErrorBodies : ErrorBodyRead(TRUE, body)
    \/ ErrorBodyRead(FALSE, Undefined)
    \/ \E data \in CompletionBodies : BodyRead(Returns(data))
    \/ \E e \in BodyErrors : BodyRead(e)

NextRequest ==
    \/ summarizePageBtnClick /\ MessagePosted
    \/ summarizeSelectionBtnClick /\ MessagePosted
    \/ retryBtnClick /\ MessagePosted
    \/ WorkerStep
    \/ ResponseArrives

SpecRequest == InitRequest /\ [][NextRequest]_vars

(***************************************************************************)
(* Claims about the persisted list                                         *)
(***************************************************************************)
\* the persisted list, [] when the key is not set
Persisted == OrEmptyArray(savedSummaries)

PersistedNext == OrEmptyArray(savedSummaries')

\* the first n elements of s, all of s when it has fewer
FirstN(s, n) == [k \in 1..(IF Len(s) < n THEN Len(s) ELSE n) |-> s[k]]

\* C1: as long as only saves have completed, the persisted list is the saved
\* entries, newest first, followed by the initial entries in their order, cut to
\* its first 100 elements; once more than 100 entries exist it has exactly 100.
C1_SavesPrependAndCap ==
    deletes = 0 =>
        /\ Persisted = FirstN(saveLog \o InitialList(initLen), MAX_SAVED)
        /\ Len(saveLog) + initLen > MAX_SAVED => Len(Persisted) = MAX_SAVED

\* two saves have completed on a full list: the two oldest entries are gone
C1_Witness ==
    /\ deletes = 0 /\ calls = <<>>
    /\ initLen = MAX_SAVED /\ Len(saveLog) = 2
    /\ Len(Persisted) = MAX_SAVED
    /\ Persisted[1] = saveLog[1] /\ Persisted[2] = saveLog[2]
    /\ Persisted[MAX_SAVED].id = 3

\* new is old without the entries whose id is id, the others in their order
IsWithoutId(old, new, id) ==
    LET keep == {k \in DOMAIN old : old[k].id # id}
        dropped(k) == Cardinality({j \in 1..k : j \notin keep})
    IN  /\ Len(new) = Cardinality(keep)
        /\ \A k \in keep : new[k - dropped(k)] = old[k]

\* C2: a completed delete leaves the persisted list without the entries of that
\* id and with all others in their relative order: one entry shorter when the id
\* names one entry, and equal to what it was when the id is not in the list.
C2_DeleteRemovesThatEntry ==
    [][deletes' = deletes + 1 =>
          /\ IsWithoutId(Persisted, PersistedNext, lastOp'.id)
          /\ lastOp'.hits = 1 => Len(PersistedNext) = Len(Persisted) - 1
          /\ lastOp'.hits = 0 => PersistedNext = Persisted]_vars

\* the middle entry of the list <<3, 2, 1>> has been deleted
C2_Witness ==
    /\ lastOp.kind = "delete" /\ lastOp.hits = 1 /\ lastOp.lenBefore = 3
    /\ lastOp.id = 2
    /\ Len(Persisted) = 2 /\ Persisted[1].id = 3 /\ Persisted[2].id = 1

(***************************************************************************)
(* Claims about the summarize request                                      *)
(***************************************************************************)
\* a result was returned for the request in progress
HasResult == Len(out.results) >= 1

\* the result generateSummary returned or, when the request ended before the
\* call, the result that ended it
Generated == out.results[1]

\* r is the failure {summary: '', success: false, error: m}
FailsWith(r, m) ==
    /\ ~r.success
    /\ r.summary = <<>>
    /\ "error" \in DOMAIN r /\ r.error[1] = "msg" /\ r.error[2] = m

\* the property error is there and is not undefined
HasError(r) == "error" \in DOMAIN r /\ r.error[1] # "undef"

\* the shape the data model gives a SummaryResult
WellFormed(r) ==
    /\ ~r.success <=>
          (HasError(r) /\ IsString(r.error) /\ Truthy(r.error) /\ r.summary = <<>>)
    /\ r.success => ~HasError(r) /\ r.summary # <<>>

\* C3: in every result returned and every payload replied, success is false
\* exactly when error is a non-empty string and summary is empty, and a success
\* has no error and a non-empty summary.
C3_ResultsWellFormed ==
    /\ \A i \in DOMAIN out.results : WellFormed(out.results[i])
    /\ \A i \in DOMAIN out.replies : WellFormed(out.replies[i])

\* the value at choices[0].message.content of a parsed body, undefined when the
\* body does not reach that far
ContentOf(data) ==
    GetProp(GetProp(First(GetProp(data, "choices")), "message"), "content")

\* the body of a 2xx response has been parsed and the call has returned
CompletionParsed == HasResult /\ Ok(req.status) /\ req.data[1] # "undef"

\* C4: when the parsed body of a 2xx response has no string at
\* choices[0].message.content, the result is the failure 'Could not generate
\* summary. Please try again.'.
C4_MissingContentIsContentFault ==
    (CompletionParsed /\ ContentOf(req.data)[1] # "str")
        => FailsWith(Generated, MsgCouldNotGenerate)

\* C5: with no API key stored, a request of any entry point issues no HTTP
\* request.
C5_NoKeyNoHttpRequest ==
    ~Truthy(syncStorage.apiKey) => net.requests = <<>>

\* a request that went as far as the configuration check with no key stored, and
\* ended there with the not-configured failure
C5_Witness ==
    /\ ~Truthy(syncStorage.apiKey)
    /\ req.origin = "contextMenu" /\ req.pc = "done"
    /\ HasResult /\ FailsWith(Generated, MsgNotConfigured)
    /\ net.requests = <<>>

\* the body of a non-2xx response has been read and handleApiError has returned
\* or thrown
ErrorResponseHandled == HasResult /\ req.status # 0 /\ ~Ok(req.status)

\* error.message of the body of an error response, undefined when it has none
ProviderMessage(data) == GetProp(GetProp(data, "error"), "message")

\* C6 as stated: every status in 500..599 gives the service-unavailable message.
C6_Every5xxUnavailable ==
    (ErrorResponseHandled /\ req.status \in 500..599)
        => FailsWith(Generated, MsgUnavailable)

\* C6: the statuses 500, 502 and 503 give the fixed service-unavailable message,
\* whatever the body of the response holds.
C6_500_502_503Unavailable ==
    (ErrorResponseHandled /\ req.status \in {500, 502, 503})
        => FailsWith(Generated, MsgUnavailable)

\* a 502 whose body carries a message of its own
C6_Witness ==
    /\ ErrorResponseHandled /\ req.status = 502
    /\ ProviderMessage(req.data)[1] = "msg"
    /\ ProviderMessage(req.data)[2] = "Quota exceeded"
    /\ FailsWith(Generated, MsgUnavailable)

\* the statuses the mapping of error responses names: 401, 429 and 5xx
KnownCodes == {401, 429} \cup (500..599)

\* C7: 401 gives the invalid-key message and 429 the rate-limit message whatever
\* the body; a status outside the known codes gives the provider's error.message
\* when the body has one, else 'An error occurred. Please try again.'.
C7_ErrorMapping ==
    ErrorResponseHandled =>
        /\ req.status = 401 => FailsWith(Generated, MsgInvalidKey)
        /\ req.status = 429 => FailsWith(Generated, MsgRateLimited)
        /\ req.status \notin KnownCodes =>
              IF Truthy(ProviderMessage(req.data))
              THEN /\ ~Generated.success /\ Generated.summary = <<>>
                   /\ Generated.error[1] = ProviderMessage(req.data)[1]
                   /\ Generated.error = ProviderMessage(req.data)
              ELSE FailsWith(Generated, MsgGeneric)

\* C8: when the 30 seconds have passed before the call returned, the result is
\* the timed-out failure with an empty summary.
C8_TimeoutBeforeResult ==
    (HasResult /\ net.elapsed) => FailsWith(Generated, MsgTimedOut)

SelectionOrigins == {"SUMMARIZE_SELECTION", "command", "contextMenu"}

\* the selection text of the request is known and is empty or white space
EmptySelection ==
    /\ req.origin \in SelectionOrigins
    /\ \/ req.origin = "contextMenu" /\ req.tab # NoTab /\ req.text[1] = "undef"
       \/ req.text[1] = "str" /\ NothingSelected(req.text[2])

\* the request told its caller or the page that no text is selected
NoSelectionReported ==
    IF req.origin = "SUMMARIZE_SELECTION"
    THEN /\ Len(out.replies) = 1
         /\ FailsWith(out.replies[1], MsgNoSelectionPopup)
    ELSE /\ Len(out.shown) = 1
         /\ out.shown[1].isError
         /\ out.shown[1].text[2] = "Error: " \o MsgNoSelectionCommand

\* C9: a selection request whose selection text is empty or white space issues
\* no HTTP request and ends with the 'No text selected' error.
C9_EmptySelectionFails ==
    EmptySelection =>
        /\ net.requests = <<>>
        /\ (req.pc = "done" /\ ~req.inCatch) => NoSelectionReported

PayloadFields == {"summary", "title", "url", "success"}

\* C10: every payload replied to GENERATE_SUMMARY or SUMMARIZE_SELECTION has the
\* fields summary, title, url and success, and error when success is false.
C10_PayloadsComplete ==
    \A i \in DOMAIN out.replies :
        /\ PayloadFields \subseteq DOMAIN out.replies[i]
        /\ ~out.replies[i].success => "error" \in DOMAIN out.replies[i]

MessageOrigins == {"GENERATE_SUMMARY", "SUMMARIZE_SELECTION"}

\* a payload that tells success from failure: success, and error with a failure
Discriminated(payload) ==
    /\ "success" \in DOMAIN payload
    /\ ~payload.success => "error" \in DOMAIN payload

\* C11: a GENERATE_SUMMARY or SUMMARIZE_SELECTION message is never answered
\* twice, and once its handler has ended, by returning or by a fault, it has been
\* answered once with a discriminated result.
C11_EveryMessageAnswered ==
    req.origin \in MessageOrigins =>
        /\ Len(out.replies) <= 1
        /\ req.pc \in {"done", "fault"} =>
              /\ Len(out.replies) = 1
              /\ Discriminated(out.replies[1])

(***************************************************************************)
(* Claims about the Extractor                                              *)
(***************************************************************************)
\* the page has a container and the listener has answered
Extracted == extraction[1] = "obj" /\ document.body[1] = "str"

\* the text of the page after the white-space clean-up
Cleaned == CleanText(document.body[2])

\* C12: a cleaned text of more than 10,000 characters is returned with
\* success:true as exactly its first 10,000 characters; a cleaned text of 50 to
\* 10,000 characters is returned unchanged.
C12_TextCutToMaxLength ==
    Extracted =>
        LET reply == extraction[2]
            cleaned == Cleaned
        IN  /\ Len(cleaned) > MAX_CONTENT_LENGTH =>
                  /\ reply.success
                  /\ Len(reply.text) = MAX_CONTENT_LENGTH
                  /\ reply.text = SubSeq(cleaned, 1, MAX_CONTENT_LENGTH)
            /\ (Len(cleaned) >= MIN_CONTENT_LENGTH
                    /\ Len(cleaned) <= MAX_CONTENT_LENGTH) =>
                  /\ reply.success
                  /\ reply.text = cleaned

\* a page whose text, wrapped in white space, cleans to 10,050 characters has
\* been cut to 10,000
C12_Witness ==
    /\ Extracted
    /\ Len(document.body[2]) > MAX_CONTENT_LENGTH + MIN_CONTENT_LENGTH + 3
    /\ extraction[2].success
    /\ Len(extraction[2].text) = MAX_CONTENT_LENGTH
    /\ LET cleaned == Cleaned
       IN  /\ Len(cleaned) = MAX_CONTENT_LENGTH + MIN_CONTENT_LENGTH
           /\ extraction[2].text[MAX_CONTENT_LENGTH] = cleaned[MAX_CONTENT_LENGTH]

\* the reply is the no-content failure
IsNoContent(reply) ==
    /\ ~reply.success
    /\ reply.text = <<>>
    /\ "error" \in DOMAIN reply /\ reply.error = Msg(MsgNoContent)

\* C13: without an internal fault the reply is the failure 'No content found to
\* summarize' with text '' exactly when the cleaned text has fewer than 50
\* characters; a cleaned text of exactly 50 characters succeeds.
C13_NoContentBelowFifty ==
    Extracted =>
        LET cleaned == Cleaned
        IN  /\ IsNoContent(extraction[2]) <=> Len(cleaned) < MIN_CONTENT_LENGTH
            /\ Len(cleaned) = MIN_CONTENT_LENGTH => extraction[2].success

\* a page that cleans to exactly 50 characters has been extracted whole
C13_Witness ==
    /\ Extracted
    /\ Len(document.body[2]) > MIN_CONTENT_LENGTH
    /\ extraction[2].success
    /\ LET cleaned == Cleaned
       IN  /\ Len(cleaned) = MIN_CONTENT_LENGTH
           /\ extraction[2].text = cleaned

(***************************************************************************)
(* Claims about the request sent to the completion endpoint                *)
(***************************************************************************)
\* 'Title: ' and '\n\nContent:\n'
TitleLabel == <<84, 105, 116, 108, 101, 58, 32>>
ContentLabel == <<10, 10, 67, 111, 110, 116, 101, 110, 116, 58, 10>>

\* the characters of t up to code 127, in their order
AsciiOf(t) ==
    LET keep == SelectSeq([i \in 1..Len(t) |-> i], LAMBDA i : t[i] < 128)
    IN  [k \in 1..Len(keep) |-> t[keep[k]]]

\* what follows 'Title: <title>\n\nContent:\n' in the user message of the
\* request built from the content {title, text}
BodyOf(userMessage, title) ==
    SubSeq(userMessage,
           Len(TitleLabel) + Len(AsciiOf(title)) + Len(ContentLabel) + 1,
           Len(userMessage))

\* C14: the body text in the user message of every request sent to the
\* endpoint has at most 10,000 characters.
C14_BodyAtMostTenThousand ==
    \A i \in DOMAIN net.requests :
        Len(BodyOf(net.requests[i].userMessage, req.content.title))
            <= MAX_CONTENT_LENGTH

\* a context-menu selection of more than 10,000 characters went out cut to 10,000
C14_Witness ==
    /\ req.origin = "contextMenu"
    /\ req.text[1] = "str" /\ Len(req.text[2]) > SELECTION_LIMIT
    /\ Len(net.requests) = 1
    /\ Len(BodyOf(net.requests[1].userMessage, req.content.title))
          = SELECTION_LIMIT

\* C15: the user message of every request is 'Title: ', the title without its
\* characters above 127, '\n\nContent:\n' and the body text as it was supplied.
C15_UserMessageComposition ==
    \A i \in DOMAIN net.requests :
        net.requests[i].userMessage =
            TitleLabel \o AsciiOf(req.content.title) \o ContentLabel
                \o req.content.text

\* a page titled "Café" whose text holds an e-acute went to the secondary
\* provider: the title lost the e-acute, the body kept it
C15_Witness ==
    /\ req.origin = "GENERATE_SUMMARY"
    /\ Len(net.requests) = 1
    /\ net.requests[1].openRouterHeaders
    /\ req.content.title = <<67, 97, 102, 233>>
    /\ SubSeq(net.requests[1].userMessage, 1, 12)
          = <<84, 105, 116, 108, 101, 58, 32, 67, 97, 102, 10, 10>>
    /\ \E k \in DOMAIN req.content.text : req.content.text[k] = 233
    /\ BodyOf(net.requests[1].userMessage, req.content.title) = req.content.text

(***************************************************************************)
(* Claims about the ids of the saved summaries                             *)
(***************************************************************************)
\* no two entries of the list have the same id
UniqueIds(list) == Cardinality({ list[k].id : k \in DOMAIN list }) = Len(list)

FromSuccessfulPayload(summary, title, url) ==
    \E p \in SuccessPayloads :
        /\ p[2].success
        /\ summary = p[2].summary /\ url = p[2].url /\ title = p[2].title

\* a call of saveCurrentSummary has been added to the storage calls
SaveCurrentStarted ==
    /\ Len(calls') = Len(calls) + 1
    /\ calls'[Len(calls')].kind = "popupSave"

\* C17: the current-result slot holds nothing or the fields of a payload whose
\* success was true; saveCurrentSummary starts a storage read only with the slot
\* filled, for an entry with the fields of the slot, and with the slot empty no
\* save of the popup is in flight or has been written.
C17_SaveOnlySuccessfulResult ==
    /\ [](/\ currentSummary # Null =>
               FromSuccessfulPayload(currentSummary[2].summary,
                                     currentSummary[2].title,
                                     currentSummary[2].url)
          /\ \A i \in DOMAIN calls : calls[i].kind = "popupSave" =>
               FromSuccessfulPayload(calls[i].entry.summary, calls[i].entry.title,
                                     calls[i].entry.url)
          /\ currentSummary = Null =>
               \A i \in DOMAIN calls : calls[i].kind # "popupSave")
    /\ [][SaveCurrentStarted =>
            /\ currentSummary # Null
            /\ calls'[Len(calls')].entry.summary = currentSummary[2].summary
            /\ calls'[Len(calls')].entry.title = currentSummary[2].title
            /\ calls'[Len(calls')].entry.url = currentSummary[2].url
            /\ savedSummaries' = savedSummaries]_vars

\* after a successful reply the popup has saved its result: the entry at the
\* head of the persisted list has the fields of the slot
C17_Witness ==
    /\ currentSummary # Null
    /\ calls = <<>>
    /\ Len(saveLog) = 1 /\ lastOp.kind = "save"
    /\ saveLog[1].summary = currentSummary[2].summary
    /\ saveLog[1].title = <<84>>
    /\ Len(Persisted) = initLen + 1
    /\ Persisted[1] = saveLog[1]

(***************************************************************************)
(* Claims about the order of the steps of a request                        *)
(***************************************************************************)
\* C18: with no API key stored, a message for a tab is answered with the
\* 'API key not configured' failure, and neither the extractor nor the selection
\* read is invoked.
C18_ConfigBeforeContent ==
    (~Truthy(syncStorage.apiKey) /\ req.origin \in MessageOrigins
        /\ req.tab # NoTab) =>
        /\ req.pc \notin {"extract", "selection"}
        /\ req.pc = "done" =>
              /\ Len(out.replies) = 1
              /\ FailsWith(out.replies[1], MsgNotConfigured)

(***************************************************************************)
(* Claims about overlapping saves and deletes                              *)
(***************************************************************************)
IdsOf(list) == { list[k].id : k \in DOMAIN list }

SavedIds == IdsOf(saveLog)

\* C19: once the storage callbacks of overlapping saves and deletes have all
\* run, every completed save has its entry in the persisted list unless its id
\* was deleted or the cap could have evicted it, and the id of every completed
\* delete is absent unless a save used it: no update is lost.
C19_NoUpdateLost ==
    calls = <<>> =>
        /\ (initLen + Len(saveLog) <= MAX_SAVED) =>
               \A k \in DOMAIN saveLog :
                   \/ saveLog[k].id \in deletedIds
                   \/ \E j \in DOMAIN Persisted : Persisted[j] = saveLog[k]
        /\ \A id \in deletedIds \ SavedIds : id \notin IdsOf(Persisted)

\* C20: the persisted list never has more than MAX_SAVED entries, whatever the
\* order in which the storage callbacks of saves and deletes run.
C20_AtMostHundred == Len(Persisted) <= MAX_SAVED

\* two saves on a full list both read it before either wrote: the list is
\* still full, and holds the entry of one of them only
C20_Witness ==
    /\ initLen = MAX_SAVED
    /\ calls = <<>>
    /\ Len(saveLog) = 2 /\ deletes = 0
    /\ Len(Persisted) = MAX_SAVED
    /\ Persisted[1] = saveLog[1]
    /\ Persisted[2] # saveLog[2]

(***************************************************************************)
(* Claims about failures of a request                                      *)
(***************************************************************************)
\* the Summarizer has returned a failure for the request in progress
HasFailed == out.results # <<>> /\ ~out.results[1].success

\* C21: a request sends at most one HTTP POST, and once the Summarizer has
\* returned a failure the request sends no further POST, asks for no
\* extraction, reads no selection and reads or writes no storage: what is left
\* of it is the display of the failure.
C21_OnePostNoRetry ==
    /\ [](Len(net.requests) <= 1)
    /\ [][(HasFailed /\ ~RequestOver) =>
             /\ net'.requests = net.requests
             /\ req'.pc \in {"show", "done", "fault"}
             /\ syncStorage' = syncStorage
             /\ savedSummaries' = savedSummaries]_vars

\* the 30 seconds passed while the POST was out: the one request was aborted
\* and the failure is on display for a selection summarized by shortcut
C21_Witness ==
    /\ Len(net.requests) = 1
    /\ net.timer = "fired"
    /\ HasFailed
    /\ req.origin = "command"
    /\ req.pc = "show"

\* extractContentFromTab returned a failure to the request in progress
ExtractionFailed ==
    /\ req.origin = "GENERATE_SUMMARY"
    /\ req.extracted[1] = "obj"
    /\ ~req.extracted[2].success

\* C24: when the extraction of a page request fails, the reply carries the
\* extractor's error unchanged, its title and url, an empty summary and
\* success false, and no HTTP request has been sent.
C24_ExtractionFailureVerbatim ==
    ExtractionFailed =>
        /\ req.pc = "done"
        /\ net.requests = <<>>
        /\ Len(out.replies) = 1
        /\ LET reply == out.replies[1]
                content == req.extracted[2]
           IN  /\ ~reply.success
               /\ reply.summary = <<>>
               /\ reply.error = content.error
               /\ reply.title = content.title
               /\ reply.url = content.url

\* the extractor found no content on a page that has a title
C24_Witness ==
    /\ ExtractionFailed
    /\ req.extracted[2].error = Msg(MsgNoContent)
    /\ req.extracted[2].title # <<>>
    /\ out.replies[1].error = Msg(MsgNoContent)

(***************************************************************************)
(* Claims about the views of the popup                                     *)
(***************************************************************************)
\* a step of the request the popup is waiting for
RequestProgress == WorkerStep \/ ResponseArrives

\* the popup has sent requests and awaits none
AllSettled == awaiting = <<>> /\ triggered > 0

\* the main view shows the loading section hidden and one of error and summary
ShowsOneResult ==
    /\ "loading" \notin visible
    /\ Cardinality(visible \cap {"error", "summary"}) = 1

ResultOf(entry) ==
    Obj([summary |-> entry.summary, title |-> entry.title, url |-> entry.url])

\* C23: when the storage set of saveCurrentSummary has completed, the
\* current-result slot does not hold the result that was saved, so that
\* another click on Save has nothing to add.
C23_SavedResultLeavesSlot ==
    [][\A i \in DOMAIN calls :
          saveCurrentSummarySet(i) => currentSummary' # ResultOf(calls[i].entry)]_vars

(***************************************************************************)
(* Claims about what a request leaves alone                                *)
(***************************************************************************)
\* a storage set of a save or a delete completes in this step
StorageSetCompletes ==
    \E i \in DOMAIN calls : calls[i].pc = "set" /\ calls' = RemoveCall(i)

\* C25: no step of a summarize request, from the click to the view that shows
\* its outcome, changes the stored configuration, and the persisted list
\* changes only when the storage set of a save or a delete completes.
C25_RequestsLeaveStorageAlone ==
    [][/\ syncStorage' = syncStorage
       /\ savedSummaries' # savedSummaries => StorageSetCompletes]_vars

\* a page request was served with a summary that is now shown, and the list
\* and the configuration are those the popup was opened with
C25_Witness ==
    /\ visible = {"summary"}
    /\ lastSettled.type = "GENERATE_SUMMARY" /\ lastSettled.success
    /\ currentSummary # Null
    /\ req.pc = "done" /\ Len(net.requests) = 1
    /\ savedSummaries = Arr(InitialList(3))
    /\ syncStorage.apiKey = Msg("sk-test")

(***************************************************************************)
(* Claims about the faults of the extraction                               *)
(***************************************************************************)
\* the listener has passed a value to sendResponse
Replied == extraction # Undefined

\* the fields of an ExtractedContent, and the error of a failed one
IsExtractedContent(v) ==
    /\ v[1] = "obj"
    /\ {"title", "text", "url", "success"} \subseteq DOMAIN v[2]
    /\ v[2].success \in BOOLEAN
    /\ v[2].success => "error" \notin DOMAIN v[2]
    /\ ~v[2].success => ("error" \in DOMAIN v[2] /\ v[2].error[1] = "msg")

\* C26: what the listener replies to EXTRACT_CONTENT is an ExtractedContent;
\* for a document whose container cannot be cloned it is the failure
\* 'Extraction failed: ...' with no text, document.title and the location.
C26_FaultsBecomeFailures ==
    Replied =>
        /\ IsExtractedContent(extraction)
        /\ document.body = Null =>
              /\ ~extraction[2].success
              /\ extraction[2].text = <<>>
              /\ extraction[2].title = document.title
              /\ extraction[2].url = document.href
              /\ extraction[2].error =
                    Msg(MsgExtractionFailed(
                        "Cannot read properties of null (reading 'cloneNode')"))

\* the content of a titled document without a body was asked for
C26_Witness ==
    /\ Replied
    /\ document.body = Null
    /\ document.title # <<>>
    /\ ~extraction[2].success

ShowsReply(reply) ==
    IF reply.success
    THEN /\ visible = {"summary"}
         /\ currentSummary # Null
         /\ currentSummary[2].summary = reply.summary
    ELSE visible = {"options", "error"}

C28_SlotIsLatestResult == "summary" \notin visible => currentSummary = Null

\* C30: a request sent by the retry button has the type of the request whose
\* failure the button was shown for.
C30_RetryKeepsScope ==
    \A k \in DOMAIN awaiting :
        awaiting[k].retryOf # "none" => awaiting[k].type = awaiting[k].retryOf

(***************************************************************************)
(* Claims about two clicks on Delete                                       *)
(***************************************************************************)
\* C29: no storage callback of deleteCurrentSummary reads the id of a
\* currentDetailSummary that is null: every invocation that was started gets
\* as far as its storage set instead of ending in a TypeError.
C29_DoubleDeleteIsSafe == lastOp.kind # "threw"

====
